---- MODULE Spec2Model ----
(***************************************************************************)
(* Model of post_isoseq_cluster/demux_isoseq_with_genome.py: the           *)
(* per-isoform, per-primer full-length read count matrix.                  *)
(*                                                                         *)
(* One run of the script is one behaviour:                                 *)
(*   __main__        parses the optional primer-names file (163-169),      *)
(*   main            reads the classify report (read_classify_csv),        *)
(*                   reads the read-status table (read_read_stat),         *)
(*                   builds the column dict and writes the header,         *)
(*                   writes one line per record of the mapped fastq.       *)
(* The rows of the three input tables are the environment's choice; each   *)
(* loop iteration of the code is one step that draws the next row.         *)
(*                                                                         *)
(* Strings that the code takes apart (a fastq record id, split at "|")     *)
(* are sequences of tokens; every other string is an opaque token.         *)
(*                                                                         *)
(* The script is Python 2 (print >>, iteritems): a dict iterates in an     *)
(* order that is arbitrary, but the same for every iteration of a dict     *)
(* that is not modified in between.                                        *)
(***************************************************************************)
EXTENDS Naturals, Sequences, FiniteSets

VARIABLES
    pc,             \* position of the run
    err,            \* the exception that ended the run ("" while none)
    primer_names,   \* __main__/main: [given, d]: None, or the dict index -> name
    override,       \* history: [given, keys]: whether a names file was given, and its
                    \* keys in first-insertion order
    csv_fields,     \* header of the classify report (field names of every row)
    primer_list,    \* read_classify_csv: the set primer_list
    classify_info,  \* read_classify_csv: info (read id -> primer); main: classify_csv
    classify_seen,  \* history: the (id, primer) pairs of the classify rows read
    r,              \* read_read_stat: the loop's current row (NoRow outside the loop)
    info,           \* read_read_stat / main: pbid -> (primer -> FL count)
    fl_rows,        \* history: pbid -> number of rows read with is_fl = "Y" and the
                    \* read id a key of classify_info
    n,              \* rows read from the file that is open
    col_order,      \* iteration order of the dict primer_names once main iterates it
    header,         \* f: the header line, as its comma-separated fields (<<>>: not written)
    rows,           \* f: the data lines written
    records         \* history: ids of the fastq records parsed so far

vars == <<pc, err, primer_names, override, csv_fields, primer_list, classify_info,
          classify_seen, r, info, fl_rows, n, col_order, header, rows, records>>

----------------------------------------------------------------------------
(* Bounds of the model: rows read from each input file.                    *)
MaxNames == 1
MaxClassify == 2
MaxStat == 2
MaxRecords == 2

(* The input universe.                                                     *)
Reads == {"r1", "r2"}
PrimerTokens == {"2", "3", "NA"}
IndexOfPrimer == [p \in PrimerTokens |->
                    IF p = "2" THEN "0--1" ELSE IF p = "3" THEN "0--2" ELSE "NA"]
Pbids == {<<"PB.1.1">>, <<"PB.2.1">>}
FlFlags == {"Y", "N"}

\* rows of a classify report of isoseq1/2 (no primer_index field) and of isoseq3
ClassifyRows12 == [id : Reads, primer : PrimerTokens]
ClassifyRows3 == {[id |-> i, primer |-> p, primer_index |-> IndexOfPrimer[p]] :
                    i \in Reads, p \in PrimerTokens}
ClassifyHeaders == {{"id", "primer"}, {"id", "primer", "primer_index"}}
ClassifyRows == ClassifyRows12 \cup ClassifyRows3

StatRows == [id : Reads, is_fl : FlFlags, pbid : Pbids]

\* fastq record ids, as token sequences ("|" is the delimiter token)
RecordIds == {<<"PB.1.1", "|", "path1">>,
              <<"PB.1.1", "|", "path2", "|", "x">>,
              <<"PB.2.1">>}

\* lines of a primer-names file, each as its whitespace-separated fields
NameLines == {<<"2", "SampleA">>, <<"4", "SampleB">>, <<"3">>}

----------------------------------------------------------------------------
(* Python values.                                                          *)

\* d[k] = v on a dict
DictSet(d, k, v) == [x \in (DOMAIN d) \cup {k} |-> IF x = k THEN v ELSE d[x]]

Range(s) == {s[i] : i \in DOMAIN s}

\* the orders in which a Python 2 dict with key set S may iterate
DictOrders(S) ==
    {s \in [1..Cardinality(S) -> S] : \A x \in S : \E i \in DOMAIN s : s[i] = x}

\* Python's order on the str tokens of the model ('0' < '2' < '3' < '4' < 'N')
StrRank(s) ==
    CASE s = "0--1" -> 1 [] s = "0--2" -> 2 [] s = "2" -> 3 [] s = "3" -> 4
      [] s = "4" -> 5 [] s = "NA" -> 6 [] OTHER -> 7

\* list(primer_list); primer_list.sort()
RECURSIVE SortedList(_)
SortedList(S) ==
    IF S = {} THEN <<>>
    ELSE LET m == CHOOSE x \in S : \A y \in S : StrRank(x) <= StrRank(y)
         IN <<m>> \o SortedList(S \ {m})

NoRow == [id |-> "", is_fl |-> "", pbid |-> <<>>]

None == [given |-> FALSE, d |-> <<>>]
Dict(d) == [given |-> TRUE, d |-> d]

----------------------------------------------------------------------------
(* __main__: the primer-names file.                                        *)

\* index, name = line.strip().split(): unpacking needs exactly two fields
UnpackFails(line) == Len(line) # 2

\* primer_names[index] = name
ParseNameLine(names, line) == Dict(DictSet(names.d, line[1], line[2]))

(* read_classify_csv, one row.                                             *)
\* variant: the "NA" rows are not skipped
SkipsRow_never(row) == FALSE

SkipsRow(row) == row.primer = "NA"

SelectPrimer(row) ==
    IF "primer_index" \in DOMAIN row THEN row.primer_index ELSE row.primer

\* variant: adds r['primer'] where the lookup records p
AddPrimer_primerField(pl, row) == pl \cup {row.primer}

AddPrimer(pl, row) == pl \cup {SelectPrimer(row)}

RecordRead(ci, row) == DictSet(ci, row.id, SelectPrimer(row))

(* read_read_stat, one row: [raised, info].                                *)
\* variant: no is_fl filter
IsFL_any(row) == TRUE

IsFL(row) == row.is_fl = "Y"

\* variant: info[pbid][p] = 1
Increment_assign(inf, pbid, p) ==
    LET c == IF pbid \in DOMAIN inf THEN inf[pbid] ELSE <<>>
    IN DictSet(inf, pbid, DictSet(c, p, 1))

\* info[pbid][p] += 1 on a defaultdict of Counters
Increment(inf, pbid, p) ==
    LET c == IF pbid \in DOMAIN inf THEN inf[pbid] ELSE <<>>
        k == IF p \in DOMAIN c THEN c[p] ELSE 0
    IN DictSet(inf, pbid, DictSet(c, p, k + 1))

\* variant: a read that is no key of classify_info is skipped (dict.get)
ReadStatStep_skip(inf, ci, row) ==
    IF IsFL(row) /\ row.id \in DOMAIN ci
    THEN [raised |-> FALSE, info |-> Increment(inf, row.pbid, ci[row.id])]
    ELSE [raised |-> FALSE, info |-> inf]

ReadStatStep(inf, ci, row) ==
    IF IsFL(row)
    THEN IF row.id \in DOMAIN ci
         THEN [raised |-> FALSE, info |-> Increment(inf, row.pbid, ci[row.id])]
         ELSE [raised |-> TRUE, info |-> inf]
    ELSE [raised |-> FALSE, info |-> inf]

(* main, lines 127-136: the column dict.                                   *)
TmpPrimerNames(pl) == [x \in Range(SortedList(pl)) |-> x]

\* variant: a given names dict is used as it is
MergePrimerNames_asGiven(names, tmp) ==
    IF ~names.given THEN Dict(tmp) ELSE names

MergePrimerNames(names, tmp) ==
    IF ~names.given THEN Dict(tmp)
    ELSE Dict([k \in (DOMAIN names.d) \cup (DOMAIN tmp) |->
                 IF k \in DOMAIN names.d THEN names.d[k] ELSE tmp[k]])

(* main, line 139: "id,{0}\n".format(",".join(primer_names.keys())),       *)
(* as the comma-separated fields of the line.                              *)
JoinFields(keys) == IF keys = <<>> THEN <<"">> ELSE keys

HeaderLine(names, order) == <<"id">> \o JoinFields(order)

(* main, lines 142-146: one record.                                        *)
RECURSIVE SplitFirst(_)
SplitFirst(id) ==
    IF id = <<>> \/ Head(id) = "|" THEN <<>>
    ELSE <<Head(id)>> \o SplitFirst(Tail(id))

\* info[pbid][p]: info is a plain dict of Counters
CellRaises(inf, pbid) == pbid \notin DOMAIN inf

Cell(inf, pbid, p) == IF p \in DOMAIN inf[pbid] THEN inf[pbid][p] ELSE 0

WriteRowStep(inf, order, id) ==
    LET pbid == SplitFirst(id)
    IN IF order # <<>> /\ CellRaises(inf, pbid)
       THEN [raised |-> TRUE, line |-> [id |-> pbid, cells |-> <<>>, nl |-> FALSE]]
       ELSE [raised |-> FALSE,
             line |-> [id |-> pbid,
                       cells |-> [i \in DOMAIN order |-> Cell(inf, pbid, order[i])],
                       nl |-> TRUE]]

----------------------------------------------------------------------------
Init ==
    /\ pc = "args"
    /\ err = ""
    /\ primer_names = None
    /\ override = [given |-> FALSE, keys |-> <<>>]
    /\ csv_fields = {}
    /\ primer_list = {}
    /\ classify_info = <<>>
    /\ classify_seen = {}
    /\ r = NoRow
    /\ info = <<>>
    /\ fl_rows = <<>>
    /\ n = 0
    /\ col_order = <<>>
    /\ header = <<>>
    /\ rows = <<>>
    /\ records = <<>>

\* args.primer_names is None
ArgsNoNames ==
    /\ pc = "args"
    /\ primer_names' = None
    /\ pc' = "main"
    /\ UNCHANGED <<err, override, csv_fields, primer_list, classify_info, classify_seen, r,
                   info, fl_rows, n, col_order, header, rows, records>>

\* primer_names = {}; open(args.primer_names)
ArgsOpenNames ==
    /\ pc = "args"
    /\ primer_names' = Dict(<<>>)
    /\ override' = [given |-> TRUE, keys |-> <<>>]
    /\ pc' = "names"
    /\ UNCHANGED <<err, csv_fields, primer_list, classify_info, classify_seen, r,
                   info, fl_rows, n, col_order, header, rows, records>>

ReadNameLine(line) ==
    /\ pc = "names"
    /\ n' = n + 1
    /\ IF UnpackFails(line)
       THEN /\ pc' = "error"
            /\ err' = "ValueError"
            /\ UNCHANGED <<primer_names, override>>
       ELSE /\ primer_names' = ParseNameLine(primer_names, line)
            /\ override' = IF line[1] \in Range(override.keys) THEN override
                           ELSE [override EXCEPT !.keys = Append(@, line[1])]
            /\ UNCHANGED <<pc, err>>
    /\ UNCHANGED <<csv_fields, primer_list, classify_info, classify_seen, r, info, fl_rows,
                   col_order, header, rows, records>>

NamesEOF ==
    /\ pc = "names"
    /\ pc' = "main"
    /\ n' = 0
    /\ UNCHANGED <<err, primer_names, override, csv_fields, primer_list, classify_info,
                   classify_seen, r, info, fl_rows, col_order, header, rows, records>>

\* main calls read_classify_csv: DictReader(open(classify_csv)) reads the header
OpenClassifyCsv(fields) ==
    /\ pc = "main"
    /\ csv_fields' = fields
    /\ pc' = "classify"
    /\ UNCHANGED <<err, primer_names, override, primer_list, classify_info, classify_seen, r,
                   info, fl_rows, n, col_order, header, rows, records>>

ReadClassifyRow(row) ==
    /\ pc = "classify"
    /\ DOMAIN row = csv_fields
    /\ n' = n + 1
    /\ classify_seen' = classify_seen \cup {<<row.id, row.primer>>}
    /\ IF SkipsRow(row)
       THEN UNCHANGED <<primer_list, classify_info>>
       ELSE /\ primer_list' = AddPrimer(primer_list, row)
            /\ classify_info' = RecordRead(classify_info, row)
    /\ UNCHANGED <<pc, err, primer_names, override, csv_fields, r, info, fl_rows,
                   col_order, header, rows, records>>

\* return primer_list, info; main calls read_read_stat
ClassifyEOF ==
    /\ pc = "classify"
    /\ pc' = "read_stat"
    /\ n' = 0
    /\ UNCHANGED <<err, primer_names, override, csv_fields, primer_list, classify_info,
                   classify_seen, r, info, fl_rows, col_order, header, rows, records>>

ReadStatRow(row) ==
    /\ pc = "read_stat"
    /\ n' = n + 1
    /\ r' = row
    /\ fl_rows' = IF row.is_fl = "Y" /\ row.id \in DOMAIN classify_info
                  THEN DictSet(fl_rows, row.pbid,
                               IF row.pbid \in DOMAIN fl_rows THEN fl_rows[row.pbid] + 1 ELSE 1)
                  ELSE fl_rows
    /\ LET s == ReadStatStep(info, classify_info, row)
       IN /\ info' = s.info
          /\ IF s.raised
             THEN pc' = "error" /\ err' = "KeyError:id"
             ELSE UNCHANGED <<pc, err>>
    /\ UNCHANGED <<primer_names, override, csv_fields, primer_list, classify_info,
                   classify_seen, col_order, header, rows, records>>

\* return dict(info)
ReadStatEOF ==
    /\ pc = "read_stat"
    /\ pc' = "columns"
    /\ n' = 0
    /\ r' = NoRow
    /\ UNCHANGED <<err, primer_names, override, csv_fields, primer_list, classify_info,
                   classify_seen, info, fl_rows, col_order, header, rows, records>>

\* main, lines 127-139: the column dict, open(output_filename, 'w'), the header
WriteHeader ==
    /\ pc = "columns"
    /\ LET names == MergePrimerNames(primer_names, TmpPrimerNames(primer_list))
       IN /\ primer_names' = names
          /\ \E order \in DictOrders(DOMAIN names.d) :
                /\ col_order' = order
                /\ header' = HeaderLine(names, order)
    /\ pc' = "rows"
    /\ UNCHANGED <<err, override, csv_fields, primer_list, classify_info, classify_seen, r,
                   info, fl_rows, n, rows, records>>

WriteRow(id) ==
    /\ pc = "rows"
    /\ n' = n + 1
    /\ records' = Append(records, id)
    /\ LET s == WriteRowStep(info, col_order, id)
       IN /\ rows' = Append(rows, s.line)
          /\ IF s.raised
             THEN pc' = "error" /\ err' = "KeyError:pbid"
             ELSE UNCHANGED <<pc, err>>
    /\ UNCHANGED <<primer_names, override, csv_fields, primer_list, classify_info,
                   classify_seen, r, info, fl_rows, col_order, header>>

\* f.close()
Close ==
    /\ pc = "rows"
    /\ pc' = "done"
    /\ UNCHANGED <<err, primer_names, override, csv_fields, primer_list, classify_info,
                   classify_seen, r, info, fl_rows, n, col_order, header, rows, records>>

Next ==
    \/ ArgsNoNames
    \/ ArgsOpenNames
    \/ \E line \in NameLines : n < MaxNames /\ ReadNameLine(line)
    \/ NamesEOF
    \/ \E fields \in ClassifyHeaders : OpenClassifyCsv(fields)
    \/ \E row \in ClassifyRows : n < MaxClassify /\ ReadClassifyRow(row)
    \/ ClassifyEOF
    \/ \E row \in StatRows : n < MaxStat /\ ReadStatRow(row)
    \/ ReadStatEOF
    \/ WriteHeader
    \/ \E id \in RecordIds : n < MaxRecords /\ WriteRow(id)
    \/ Close

Spec == Init /\ [][Next]_vars

----------------------------------------------------------------------------
(* The worked example: the classify report r1 -> "2", r2 -> "3",           *)
(* r3 -> "NA"; the read-status rows r1,Y / r2,Y / r3,Y / r2,N, all of      *)
(* PB.1.1; one fastq record of PB.1.1; the names file 2 -> SampleA.        *)
(* The same program, its rows drawn from the rows of these files.          *)
ExMaxNames == 1
ExMaxClassify == 3
ExMaxStat == 4
ExMaxRecords == 1

ExampleClassifyRows == {[id |-> "r1", primer |-> "2"],
                        [id |-> "r2", primer |-> "3"],
                        [id |-> "r3", primer |-> "NA"]}
ExampleStatRows == {[id |-> "r1", is_fl |-> "Y", pbid |-> <<"PB.1.1">>],
                    [id |-> "r2", is_fl |-> "Y", pbid |-> <<"PB.1.1">>],
                    [id |-> "r3", is_fl |-> "Y", pbid |-> <<"PB.1.1">>],
                    [id |-> "r2", is_fl |-> "N", pbid |-> <<"PB.1.1">>]}
ExampleRecordIds == {<<"PB.1.1", "|", "path1">>}
ExampleNameLines == {<<"2", "SampleA">>}

NextExample ==
    \/ ArgsNoNames
    \/ ArgsOpenNames
    \/ \E line \in ExampleNameLines : n < ExMaxNames /\ ReadNameLine(line)
    \/ NamesEOF
    \/ OpenClassifyCsv({"id", "primer"})
    \/ \E row \in ExampleClassifyRows : n < ExMaxClassify /\ ReadClassifyRow(row)
    \/ ClassifyEOF
    \/ \E row \in ExampleStatRows : n < ExMaxStat /\ ReadStatRow(row)
    \/ ReadStatEOF
    \/ WriteHeader
    \/ \E id \in ExampleRecordIds : n < ExMaxRecords /\ WriteRow(id)
    \/ Close

SpecExample == Init /\ [][NextExample]_vars

----------------------------------------------------------------------------
(* Properties.                                                             *)

RECURSIVE SumSeq(_)
SumSeq(s) == IF s = <<>> THEN 0 ELSE Head(s) + SumSeq(Tail(s))

RowIds == [i \in DOMAIN rows |-> rows[i].id]

\* the isoform ids of the records parsed, each once, in order of first appearance
RECURSIVE FirstAppearances(_)
FirstAppearances(s) ==
    IF s = <<>> THEN <<>>
    ELSE LET d == FirstAppearances(SubSeq(s, 1, Len(s) - 1))
             x == SplitFirst(s[Len(s)])
         IN IF x \in Range(d) THEN d ELSE Append(d, x)

\* number of is_fl = "Y" rows read for pbid whose read id is a key of the lookup
FlRowsOf(pbid) == IF pbid \in DOMAIN fl_rows THEN fl_rows[pbid] ELSE 0

\* every classify row read for id has primer "NA", and there is one
NaOnly(id) ==
    /\ <<id, "NA">> \in classify_seen
    /\ \A x \in classify_seen : x[1] = id => x[2] = "NA"

\* the step reads a row of the read-status table (the row is r')
StatRowStep == pc = "read_stat" /\ n' = n + 1

\* C1: when main has completed, the counts of every row written sum to the
\* number of read-status rows with is_fl = "Y" whose pbid is the row's isoform
\* and whose read id is a key of the classification lookup.
C1_SumInvariant ==
    pc = "done" =>
        \A i \in DOMAIN rows : SumSeq(rows[i].cells) = FlRowsOf(rows[i].id)

\* a completed run with a row whose two columns each count one read
C1_Witness ==
    /\ pc = "done"
    /\ \E i \in DOMAIN rows : rows[i].cells = <<1, 1>> /\ FlRowsOf(rows[i].id) = 2

\* C2 (as claimed): when main has completed, the rows written are exactly the
\* distinct isoform ids of the records, one row each, in order of first appearance.
C2_RowCompleteness ==
    pc = "done" => RowIds = FirstAppearances(records)

\* C3 (as claimed): the header is "id" followed by the display label of each
\* column, in column order.
C3_HeaderLabels ==
    header # <<>> =>
        header = <<"id">> \o JoinFields([i \in DOMAIN col_order |->
                                           primer_names.d[col_order[i]]])

\* C4: once the header is written, every primer of the primer set is a column:
\* it is a key iterated for the header and for every row.
C4_ColumnCompleteness ==
    header # <<>> =>
        /\ primer_list \subseteq Range(col_order)
        /\ primer_list \subseteq Range(Tail(header))
        /\ \A i \in DOMAIN rows : rows[i].nl => Len(rows[i].cells) = Len(col_order)

\* a completed run with a names file that omits an observed primer, and a row
C4_Witness ==
    /\ pc = "done"
    /\ override.given
    /\ override.keys = <<"2">>
    /\ "3" \in primer_list
    /\ \E i \in DOMAIN rows : rows[i].nl

\* C5 (as claimed): every record gets a complete row whose cell for each column
\* is the count of the pair when it was counted and 0 otherwise, also for an
\* isoform that is absent from the count matrix; no run ends at such a record.
C5_ZeroDefault ==
    \A i \in DOMAIN rows :
        /\ rows[i].nl
        /\ rows[i].cells =
              [j \in DOMAIN col_order |->
                 IF rows[i].id \in DOMAIN info /\ col_order[j] \in DOMAIN info[rows[i].id]
                 THEN info[rows[i].id][col_order[j]] ELSE 0]

\* C6: reading a read-status row with is_fl = "Y" whose read id is no key of the
\* lookup ends the run with the missing-key error, the count matrix untouched;
\* the error state is never left and nothing is written after it.
C6_MissingReadFatal ==
    [][ /\ (StatRowStep /\ r'.is_fl = "Y" /\ r'.id \notin DOMAIN classify_info)
            => (pc' = "error" /\ err' = "KeyError:id" /\ info' = info)
        /\ (pc = "error" /\ err = "KeyError:id")
            => (pc' = "error" /\ header' = <<>> /\ rows' = <<>>) ]_vars

\* the run ended at a full-length row of an unknown read, after counting another
C6_Witness ==
    /\ pc = "error"
    /\ err = "KeyError:id"
    /\ r.is_fl = "Y"
    /\ r.id \notin DOMAIN classify_info
    /\ DOMAIN info # {}
    /\ header = <<>>

\* the worked example at its third read-status row: r1 and r2 are counted for
\* PB.1.1 and the row r3,Y,PB.1.1 is the current one
ScenarioAtR3 ==
    /\ classify_seen = {<<"r1", "2">>, <<"r2", "3">>, <<"r3", "NA">>}
    /\ DOMAIN info = {<<"PB.1.1">>}
    /\ DOMAIN info[<<"PB.1.1">>] = {"2", "3"}
    /\ info[<<"PB.1.1">>]["2"] = 1
    /\ info[<<"PB.1.1">>]["3"] = 1
    /\ r = [id |-> "r3", is_fl |-> "Y", pbid |-> <<"PB.1.1">>]

\* C7 (as claimed): a read-status row with is_fl = "Y" of a read classified "NA"
\* does not end the run; in the worked example the run goes on past r3.
C7_NaReadExcluded ==
    /\ (r.is_fl = "Y" /\ NaOnly(r.id)) => pc # "error"
    /\ ScenarioAtR3 => pc # "error"

\* C7 (amended): a read-status row with is_fl = "Y" of a read whose classify
\* rows all have primer "NA" ends the run with the missing-key error: the read
\* is counted nowhere and neither header nor row is written.
C7_NaReadFatal ==
    (r.is_fl = "Y" /\ NaOnly(r.id)) =>
        /\ pc = "error"
        /\ err = "KeyError:id"
        /\ header = <<>>
        /\ rows = <<>>
        /\ \A pbid \in DOMAIN info :
              SumSeq([i \in 1..Len(SortedList(DOMAIN info[pbid])) |->
                        info[pbid][SortedList(DOMAIN info[pbid])[i]]]) = FlRowsOf(pbid)

\* the worked example, ended in the error at its row r3,Y,PB.1.1
C7_Witness == ScenarioAtR3 /\ pc = "error" /\ err = "KeyError:id"

\* C8: reading a read-status row whose is_fl is not "Y" leaves the count matrix
\* unchanged and raises nothing, whatever the classify rows of its read.
C8_NonFLExcluded ==
    [][ (StatRowStep /\ r'.is_fl # "Y")
          => (info' = info /\ pc' = "read_stat" /\ err' = err) ]_vars

\* a non-full-length row of a read that is no key of the lookup was read, after
\* a full-length row was counted
C8_Witness ==
    /\ pc = "read_stat"
    /\ r.is_fl = "N"
    /\ r.id \notin DOMAIN classify_info
    /\ NaOnly(r.id)
    /\ DOMAIN info # {}

\* C9 (as claimed): with no names file the columns are the observed primers in
\* ascending order; with one, its keys come first in insertion order and the
\* observed primers it omits follow; header and rows use the same order.
C9_ColumnOrder ==
    header # <<>> =>
        /\ ~override.given => col_order = SortedList(primer_list)
        /\ override.given =>
              /\ SubSeq(col_order, 1, Len(override.keys)) = override.keys
              /\ {col_order[i] : i \in (Len(override.keys) + 1)..Len(col_order)}
                    = primer_list \ Range(override.keys)
        /\ header = HeaderLine(primer_names, col_order)
        /\ \A i \in DOMAIN rows : rows[i].nl => Len(rows[i].cells) = Len(col_order)

\* C10: every value of the lookup is in the primer set, and every primer that
\* is a key of an isoform's counter is in the primer set.
C10_PrimerSetClosure ==
    /\ \A id \in DOMAIN classify_info : classify_info[id] \in primer_list
    /\ \A pbid \in DOMAIN info : DOMAIN info[pbid] \subseteq primer_list

\* a later classify row overwrote a read's primer, and the read was counted
C10_Witness ==
    /\ Cardinality(primer_list) = 2
    /\ Cardinality(DOMAIN classify_info) = 1
    /\ DOMAIN info # {}

====
